---- MODULE Spec2Model ----
(***************************************************************************)
(* Model of src/bot.py: the per-user request orchestration of the YouTube  *)
(* downloader bot (link classification, session store in                   *)
(* context.user_data, metadata resolution, format negotiation, playlist    *)
(* expansion and delivery with link fallback).                             *)
(*                                                                         *)
(* Python strings are sequences of one-character strings, so that          *)
(* substring tests, str.replace, str.strip and the regular expressions     *)
(* are computed as the code computes them.                                 *)
(***************************************************************************)
EXTENDS Integers, Sequences, FiniteSets, TLC

(***************************************************************************)
(* String literals of the source.                                          *)
(***************************************************************************)
S_http == <<"h","t","t","p",":","/","/">>
S_https == <<"h","t","t","p","s",":","/","/">>
S_www == <<"w","w","w",".">>
S_youtube == <<"y","o","u","t","u","b","e">>
S_youtu == <<"y","o","u","t","u">>
S_nocookie == <<"y","o","u","t","u","b","e","-","n","o","c","o","o","k","i","e">>
S_dot == <<".">>
S_com == <<"c","o","m">>
S_be == <<"b","e">>
S_slash == <<"/">>
S_watch == <<"w","a","t","c","h","?","v","=">>
S_embed == <<"e","m","b","e","d","/">>
S_v == <<"v","/">>
S_shorts == <<"s","h","o","r","t","s","/">>
S_playlist == <<"p","l","a","y","l","i","s","t","?","l","i","s","t","=">>
S_qv == <<"?","v","=">>
S_youtu_be == <<"y","o","u","t","u",".","b","e","/">>
S_list == <<"l","i","s","t","=">>
S_dl == <<"d","l","_">>
S_fmt == <<"f","m","t","_">>
S_audio == <<"a","u","d","i","o">>
S_video_720 == <<"v","i","d","e","o","_","7","2","0">>
S_video_480 == <<"v","i","d","e","o","_","4","8","0">>
S_video_360 == <<"v","i","d","e","o","_","3","6","0">>
S_video_144 == <<"v","i","d","e","o","_","1","4","4">>
S_help == <<"h","e","l","p">>
S_about == <<"a","b","o","u","t">>
S_watch_base == S_https \o S_www \o S_youtube \o S_dot \o S_com \o S_slash \o S_watch

\* Python's None where a string is expected, and where a dict is expected.
None == <<"None">>
NoneDict == [isNone |-> TRUE]

(***************************************************************************)
(* Python string operations.                                               *)
(***************************************************************************)
\* s[i:i+len(lit)] == lit
HasAt(s, i, lit) ==
    /\ i >= 1
    /\ i + Len(lit) - 1 <= Len(s)
    /\ \A k \in 1..Len(lit) : s[i + k - 1] = lit[k]

\* lit in s
Contains(s, lit) == \E i \in 1..(Len(s) + 1) : HasAt(s, i, lit)

\* s.startswith(lit)
StartsWith(s, lit) == HasAt(s, 1, lit)

\* s.replace(old, ''): every non-overlapping occurrence, left to right
RECURSIVE RemoveAll(_, _)
RemoveAll(s, old) ==
    IF s = <<>> THEN <<>>
    ELSE IF HasAt(s, 1, old) THEN RemoveAll(SubSeq(s, Len(old) + 1, Len(s)), old)
    ELSE <<Head(s)>> \o RemoveAll(Tail(s), old)

Whitespace == {" ", "\n", "\t"}

RECURSIVE LStrip(_)
LStrip(s) ==
    IF s # <<>> /\ Head(s) \in Whitespace THEN LStrip(Tail(s)) ELSE s

RECURSIVE RStrip(_)
RStrip(s) ==
    IF s # <<>> /\ s[Len(s)] \in Whitespace THEN RStrip(SubSeq(s, 1, Len(s) - 1)) ELSE s

\* s.strip()
Strip(s) == RStrip(LStrip(s))

(***************************************************************************)
(* Regular expressions, matched from a set of start positions to the set   *)
(* of positions a match of the sub-pattern can end at (re.match finds a    *)
(* match iff some way of matching exists).                                 *)
(***************************************************************************)
\* (l1|l2|...)
ReAlt(s, P, lits) == {p + Len(l) : <<p, l>> \in {q \in P \X lits : HasAt(s, q[1], q[2])}}

\* (l1|l2|...)?
ReOpt(s, P, lits) == P \cup ReAlt(s, P, lits)

\* .+ followed by the literal lit
ReDotPlusThen(s, P, lit) ==
    {q + Len(lit) : <<p, q>> \in {r \in P \X (1..Len(s)) :
                        /\ r[2] > r[1]
                        /\ HasAt(s, r[2], lit)
                        /\ \A k \in r[1]..(r[2] - 1) : s[k] # "\n"}}

\* [^&=%\?]{11}
ReVideoId(s, P) ==
    {p + 11 : p \in {q \in P : /\ q + 10 <= Len(s)
                               /\ \A k \in q..(q + 10) : s[k] \notin {"&", "=", "%", "?"}}}

Pattern1(s) ==
    LET a1 == ReOpt(s, {1}, {S_http, S_https})
        a2 == ReOpt(s, a1, {S_www})
        a3 == ReAlt(s, a2, {S_youtube, S_youtu, S_nocookie})
        a4 == ReAlt(s, a3, {S_dot})
        a5 == ReAlt(s, a4, {S_com, S_be})
        a6 == ReAlt(s, a5, {S_slash})
        a7 == ReOpt(s, a6, {S_watch, S_embed, S_v, S_shorts, S_playlist})
                 \cup ReDotPlusThen(s, a6, S_qv)
    IN  ReVideoId(s, a7) # {}

Pattern2(s) ==
    LET a1 == ReOpt(s, {1}, {S_http, S_https})
        a2 == ReOpt(s, a1, {S_www})
        a3 == ReAlt(s, a2, {S_youtu_be})
    IN  ReVideoId(s, a3) # {}

is_youtube_url(url) == Pattern1(url) \/ Pattern2(url)

\* faulty variant: a link with a video identifier is not a playlist
is_playlist_without_video(url) == Contains(url, S_list) /\ ~Contains(url, <<"v","=">>)

is_playlist(url) == Contains(url, S_list)

\* The characters of the class of the forwarded-message URL pattern:
\* [a-zA-Z], [0-9], [$-_@.&+] (a range from "$" to "_"), [!*\\(\\),];
\* the %XX alternative is covered by "%" of the range.
Letters == {"a","b","c","d","e","f","g","h","i","j","k","l","m","n","o","p","q",
            "r","s","t","u","v","w","x","y","z",
            "A","B","C","D","E","F","G","H","I","J","K","L","M","N","O","P","Q",
            "R","S","T","U","V","W","X","Y","Z"}
Digits == {"0","1","2","3","4","5","6","7","8","9"}
UrlChars == Letters \cup Digits \cup
            {"$","%","&","'","(",")","*","+",",","-",".","/",":",";","<","=",">",
             "?","@","[","\\","]","^","_","!"}

\* length of http[s]?:// at position i, 0 when it is not there
SchemeLenAt(s, i) ==
    IF HasAt(s, i, S_https) THEN Len(S_https)
    ELSE IF HasAt(s, i, S_http) THEN Len(S_http) ELSE 0

UrlMatchAt(s, i) ==
    /\ SchemeLenAt(s, i) > 0
    /\ i + SchemeLenAt(s, i) <= Len(s)
    /\ s[i + SchemeLenAt(s, i)] \in UrlChars

\* last position of the greedy run of class characters that starts at j
RECURSIVE RunEnd(_, _)
RunEnd(s, j) ==
    IF j + 1 <= Len(s) /\ s[j + 1] \in UrlChars THEN RunEnd(s, j + 1) ELSE j

\* re.findall(...)[0], None when the list is empty
FirstUrl(text) ==
    LET starts == {i \in 1..Len(text) : UrlMatchAt(text, i)}
    IN  IF starts = {} THEN None
        ELSE LET i0 == CHOOSE i \in starts : \A j \in starts : i <= j
             IN  SubSeq(text, i0, RunEnd(text, i0 + SchemeLenAt(text, i0)))

(***************************************************************************)
(* Bounds and inputs.                                                      *)
(***************************************************************************)
\* number of users whose events are handled
NumUsers == 2
\* largest number of entries the extraction service lists for a playlist
MaxPlaylist == 11

Users == 1..NumUsers

Id1 == <<"d","Q","w","4","w","9","W","g","X","c","Q">>
Id2 == <<"a","b","c","d","e","f","g","h","i","j","k">>
\* an identifier with an underscore after "dl"
Id3 == <<"x","y","z","d","l","_","7","8","9","0","w">>

U_watch == S_watch_base \o Id1
U_short == S_https \o S_youtu_be \o Id2
U_under == S_watch_base \o Id3
\* the first video as a browser shows it, with the channel parameter
U_long == U_watch \o <<"&","a","b","_","c","h","a","n","n","e","l","=",
                        "R","i","c","k","A","s","t","l","e","y">>
\* the second video as a shorts link
U_shorts == S_https \o S_www \o S_youtube \o S_dot \o S_com \o S_slash \o S_shorts \o Id2
U_mixed == U_watch \o <<"&">> \o S_list \o <<"P","L","1">>
U_playlist == S_https \o S_www \o S_youtube \o S_dot \o S_com \o S_slash
                 \o S_playlist \o <<"P","L","r","A","X","t","m","E","r","Z","g">>
T_padded == <<" ">> \o U_short \o <<"\n">>
T_hello == <<"h","e","l","l","o">>
T_other == S_https \o <<"e","x","a","m","p","l","e",".","c","o","m","/">> \o S_watch \o Id1
T_embedded == <<"s","e","e"," ">> \o U_short \o <<" ","n","o","w">>

\* The text messages <<body, forwarded>> the users send.  User 1 sends all
\* of them; the other users send enough to hold a session of their own.
Messages(u) ==
    IF u = 1
    THEN {<<U_watch, FALSE>>, <<T_padded, FALSE>>, <<U_mixed, FALSE>>, <<U_playlist, FALSE>>,
          <<T_hello, FALSE>>, <<T_other, FALSE>>, <<T_embedded, FALSE>>,
          <<T_embedded, TRUE>>, <<T_hello, TRUE>>, <<T_other, TRUE>>}
    ELSE {<<U_short, FALSE>>}

\* the messages of the long-link scenario
LongMessages == {<<U_long, FALSE>>}

\* the six tokens of the format menu
T_video_best == S_fmt \o <<"v","i","d","e","o","_","b","e","s","t">>
T_video_720 == S_fmt \o S_video_720
T_video_480 == S_fmt \o S_video_480
T_video_360 == S_fmt \o S_video_360
T_video_144 == S_fmt \o S_video_144
T_audio == S_fmt \o S_audio
FormatMenu == <<T_video_best, T_video_720, T_video_480, T_video_360, T_video_144, T_audio>>

\* a token no button of the bot carries, which a client may still send
T_noop == <<"n","o","o","p">>

\* the callback data the users send
CallbackData(u) ==
    IF u = 1
    THEN {S_help, S_about, T_noop, S_dl, S_dl \o U_watch, S_dl \o U_short, S_dl \o U_under,
          T_video_720, T_audio}
    ELSE {T_audio}

\* the arguments of the /search commands the users send (context.args)
Q_lofi == <<"l","o","f","i">>
Q_music == <<"m","u","s","i","c">>

Searches(u) == IF u = 1 THEN {<<>>, <<Q_lofi, Q_music>>} ELSE {}

\* the commands /start and /help a user sends
Commands(u) == IF u = 1 THEN {"start", "help"} ELSE {}

\* ' '.join(words)
RECURSIVE Join(_)
Join(words) ==
    IF words = <<>> THEN <<>>
    ELSE IF Len(words) = 1 THEN words[1]
    ELSE words[1] \o <<" ">> \o Join(Tail(words))

(***************************************************************************)
(* Python dicts are functions from keys to values.                         *)
(***************************************************************************)
EmptyDict == [k \in {} |-> 0]

\* d.get(k, default)
Get(d, k, default) == IF k \in DOMAIN d THEN d[k] ELSE default

\* d[k] = v
Put(d, k, v) == [j \in DOMAIN d \cup {k} |-> IF j = k THEN v ELSE d[j]]

\* seq[:n]
Slice(seq, n) == SubSeq(seq, 1, IF Len(seq) < n THEN Len(seq) ELSE n)

(***************************************************************************)
(* The extraction service (YoutubeDL.extract_info): what it can answer for *)
(* a URL.  Raise stands for any exception of the call.  The service knows  *)
(* three videos; one has no thumbnail.  Through its shorts link the second  *)
(* video is answered with every field of the metadata present, absent or   *)
(* null.                                                                   *)
(***************************************************************************)
Raise == [raise |-> TRUE]

\* Python's None as the value of a text field and of a number field
NoneStr == "<None>"
NoneNum == -1

MetadataKeys == {"title", "duration", "thumbnail", "uploader", "view_count", "id"}

NoneOf(k) ==
    IF k \in {"duration", "view_count"} THEN NoneNum
    ELSE IF k = "id" THEN None ELSE NoneStr

\* full with each of its keys kept, dropped or set to None
MetadataShapes(full) ==
    {[k \in pn[1] |-> IF k \in pn[2] THEN NoneOf(k) ELSE full[k]] :
        pn \in {qm \in (SUBSET MetadataKeys) \X (SUBSET MetadataKeys) : qm[2] \subseteq qm[1]}}

VideoIdOf(url) ==
    IF url \in {U_watch, U_long} THEN Id1 ELSE IF url \in {U_short, U_shorts} THEN Id2
    ELSE IF url = U_under THEN Id3 ELSE None

ExtractVideo(url) ==
    {Raise} \cup
    (IF url \in {U_watch, U_long}
     THEN {[title |-> "Never Gonna Give You Up", duration |-> 212, thumbnail |-> "thumb1",
            uploader |-> "Rick Astley", view_count |-> 1000, id |-> Id1]}
     ELSE IF url = U_short
     THEN {[title |-> "Short clip", duration |-> 30, uploader |-> "Someone",
            view_count |-> 7, id |-> Id2]}
     ELSE IF url = U_under
     THEN {[title |-> "Third", duration |-> 61, thumbnail |-> "thumb3",
            uploader |-> "Someone", view_count |-> 3, id |-> Id3]}
     ELSE IF url = U_shorts
     THEN MetadataShapes([title |-> "Short clip", duration |-> 30, thumbnail |-> "thumb2",
                          uploader |-> "Someone", view_count |-> 7, id |-> Id2])
     ELSE {})

\* the 'format' option of get_download_info
FormatSpec(format_type, quality) ==
    IF format_type = "audio" THEN <<"bestaudio">>
    ELSE IF quality = "best" THEN <<"best">>
    ELSE <<"best[height<=", quality, "]">>

StreamRef(url, format) == <<"c","d","n","/">> \o VideoIdOf(url) \o <<"/">> \o format

ExtractStream(url, format) ==
    {Raise} \cup
    (IF VideoIdOf(url) = None THEN {}
     ELSE LET stream == [url |-> StreamRef(url, format), title |-> "stream",
                         ext |-> "mp4", filesize |-> 2048]
          IN  {stream,
               [title |-> "stream"],
               [title |-> "stream", entries |-> <<>>],
               [title |-> "stream", entries |-> <<stream>>],
               [title |-> "stream", entries |-> <<[title |-> "stream"]>>]})

DigitSeq == <<"0","1","2","3","4","5","6","7","8","9">>

PlaylistEntryId(i) ==
    IF i = 1 THEN Id1 ELSE IF i = 2 THEN Id2 ELSE IF i = 3 THEN Id3
    ELSE <<"e","n","t","r","y","_","_","_","_",
           DigitSeq[(i \div 10) + 1], DigitSeq[(i % 10) + 1]>>

PlaylistEntries(n) == [i \in 1..n |-> [id |-> PlaylistEntryId(i), title |-> "entry"]]

ExtractPlaylist(url) ==
    {Raise, [title |-> "Mix"]} \cup
    {[title |-> "Mix", entries |-> PlaylistEntries(n)] : n \in {0, 2, MaxPlaylist}}

\* f"ytsearch{max_results}:{query}" with max_results = 5
SearchSpec(query) == <<"y","t","s","e","a","r","c","h","5",":">> \o query

SearchEntries(n) ==
    [i \in 1..n |-> [id |-> PlaylistEntryId(i), title |-> "hit", duration |-> 212]]

ExtractSearch(query) ==
    {Raise, [id |-> query], [id |-> query, entries |-> SearchEntries(0)],
     [id |-> query, entries |-> SearchEntries(2)]}

(***************************************************************************)
(* The resolvers.                                                          *)
(***************************************************************************)
get_video_info(raw) ==
    IF raw = Raise THEN NoneDict
    ELSE [title |-> Get(raw, "title", "Unknown"),
          duration |-> Get(raw, "duration", 0),
          thumbnail |-> Get(raw, "thumbnail", ""),
          uploader |-> Get(raw, "uploader", "Unknown"),
          view_count |-> Get(raw, "view_count", 0),
          id |-> Get(raw, "id", <<>>)]

StreamDict(d) ==
    [url |-> Get(d, "url", <<>>), title |-> Get(d, "title", "video"),
     ext |-> Get(d, "ext", "mp4"), filesize |-> Get(d, "filesize", 0)]

get_download_info(raw) ==
    IF raw = Raise THEN NoneDict
    ELSE IF "url" \in DOMAIN raw THEN StreamDict(raw)
    ELSE IF "entries" \in DOMAIN raw /\ Len(raw.entries) > 0 THEN StreamDict(raw.entries[1])
    ELSE NoneDict

PlaylistLimit == 10

PlaylistVideo(entry) ==
    [title |-> Get(entry, "title", "Unknown"), id |-> Get(entry, "id", <<>>),
     url |-> S_watch_base \o Get(entry, "id", <<>>)]

\* faulty variant: the total is the length of the truncated list
get_playlist_info_truncated_total(raw) ==
    IF raw = Raise THEN NoneDict
    ELSE IF "entries" \in DOMAIN raw
    THEN [playlist_title |-> Get(raw, "title", "Playlist"),
          videos |-> [i \in 1..Len(Slice(raw.entries, PlaylistLimit)) |->
                         PlaylistVideo(raw.entries[i])],
          total_count |-> Len(Slice(raw.entries, PlaylistLimit))]
    ELSE NoneDict

get_playlist_info(raw) ==
    IF raw = Raise THEN NoneDict
    ELSE IF "entries" \in DOMAIN raw
    THEN [playlist_title |-> Get(raw, "title", "Playlist"),
          videos |-> [i \in 1..Len(Slice(raw.entries, PlaylistLimit)) |->
                         PlaylistVideo(raw.entries[i])],
          total_count |-> Len(Get(raw, "entries", <<>>))]
    ELSE NoneDict

\* faulty variant: the 480 check comes before the 720 check
ParseQuality_480_first(data) ==
    IF Contains(data, S_video_480) THEN "480"
    ELSE IF Contains(data, S_video_720) THEN "720"
    ELSE IF Contains(data, S_video_360) THEN "360"
    ELSE IF Contains(data, S_video_144) THEN "144"
    ELSE "best"

search_youtube(raw) == IF raw = Raise THEN <<>> ELSE Get(raw, "entries", <<>>)

\* callback_data of the buttons of a search result
SearchKeyboard(results) ==
    [i \in 1..Len(results) |-> S_dl \o S_watch_base \o Get(results[i], "id", <<>>)]

\* the quality tier of a fmt_ token
ParseQuality(data) ==
    IF Contains(data, S_video_720) THEN "720"
    ELSE IF Contains(data, S_video_480) THEN "480"
    ELSE IF Contains(data, S_video_360) THEN "360"
    ELSE IF Contains(data, S_video_144) THEN "144"
    ELSE "best"

\* faulty variant: the marker is looked for with a capital letter
ParseFormatType_capital(data) ==
    IF Contains(data, <<"A","u","d","i","o">>) THEN "audio" ELSE "video"

ParseFormatType(data) == IF Contains(data, S_audio) THEN "audio" ELSE "video"

\* callback_data of the buttons of a playlist listing
PlaylistKeyboard(videos) == [i \in 1..Len(videos) |-> S_dl \o videos[i].url]

(***************************************************************************)
(* State.                                                                  *)
(*   user_data  context.user_data of every user: a dict with the optional  *)
(*              keys current_url and video_info                            *)
(*   pc         the await point or blocking call the handler in flight is  *)
(*              at; "idle" before the first update, "done" after a handler *)
(*              has returned or raised                                     *)
(*   ev         the update being handled                                   *)
(*   loc        the local variables of the handler                         *)
(*   out        the transport calls of this update, in order, each with    *)
(*              its outcome                                                *)
(*   ext        the extraction-service calls of this update, in order,     *)
(*              each with the raw answer of the service and the result of  *)
(*              the resolver                                               *)
(*   escaped    an exception left the handler                              *)
(*   sess0      user_data when the handler started               (history) *)
(*   hist       per user: the URL and the metadata of the last completed   *)
(*              session write (last, info), the URL of the one before it   *)
(*              (prev), and whether current_url was written since without  *)
(*              video_info (dirty)                               (history) *)
(* ev.retry: the update is a fmt_ selection that directly follows a fmt_    *)
(* selection of the same user whose stream resolution failed     (history) *)
(***************************************************************************)
VARIABLES user_data, pc, ev, loc, out, ext, escaped, sess0, hist

vars == <<user_data, pc, ev, loc, out, ext, escaped, sess0, hist>>

NoLocals ==
    [url |-> None, info |-> NoneDict, msg_deleted |-> FALSE, playlist_info |-> NoneDict,
     format_type |-> "", quality |-> "", download_info |-> NoneDict,
     query |-> None, results |-> <<>>]

Init ==
    /\ user_data = [u \in Users |-> EmptyDict]
    /\ pc = "idle"
    /\ ev = [handler |-> "none", user |-> 1, text |-> <<>>, forwarded |-> FALSE,
             retry |-> FALSE]
    /\ loc = NoLocals
    /\ out = <<>>
    /\ ext = <<>>
    /\ escaped = FALSE
    /\ sess0 = [u \in Users |-> EmptyDict]
    /\ hist = [u \in Users |-> [last |-> None, info |-> NoneDict, prev |-> None,
                                 dirty |-> FALSE]]

\* the stream resolution of the update in flight failed
ResolutionFailed ==
    \E i \in 1..Len(ext) : ext[i].fn = "get_download_info" /\ ext[i].result = NoneDict

\* history of a completed session write (current_url and video_info of one URL)
NotePut(h, u, url, info) ==
    [h EXCEPT ![u] = [last |-> url, info |-> info, prev |-> h[u].last, dirty |-> FALSE]]

\* history of a write of current_url alone
NoteUrlOnly(h, u) == [h EXCEPT ![u].dirty = TRUE]

\* The application is built without concurrent updates and every handler is
\* registered blocking, and get_video_info, get_download_info,
\* get_playlist_info and search_youtube are synchronous calls that hold the
\* event loop: the next update is taken only when no handler is in flight.
\* Its handler starts with fresh locals.
\* faulty variant: an update is taken while a handler is in flight
Begin_concurrent(handler, u, text, forwarded) ==
    /\ ev' = [handler |-> handler, user |-> u, text |-> text, forwarded |-> forwarded,
              retry |-> /\ ResolutionFailed
                        /\ ev.user = u
                        /\ handler = "button_callback"
                        /\ StartsWith(text, S_fmt)]
    /\ out' = <<>>
    /\ ext' = <<>>
    /\ escaped' = FALSE
    /\ sess0' = user_data

Begin(handler, u, text, forwarded) ==
    /\ pc \in {"idle", "done"}
    /\ ev' = [handler |-> handler, user |-> u, text |-> text, forwarded |-> forwarded,
              retry |-> /\ ResolutionFailed
                        /\ ev.user = u
                        /\ handler = "button_callback"
                        /\ StartsWith(text, S_fmt)]
    /\ out' = <<>>
    /\ ext' = <<>>
    /\ escaped' = FALSE
    /\ sess0' = user_data

\* what the transport can answer to a call: TRUE when it accepts it, FALSE
\* when it raises a TelegramError; a deleted message cannot be edited
TransportOutcomes(call, deleted) ==
    IF call = "edit_text" /\ deleted THEN {FALSE} ELSE {TRUE, FALSE}

\* One transport call: it is logged with its outcome, and the handler goes
\* on at okpc, or at failpc when the call raised; failpc = "raise" when no
\* try statement encloses the call.  tmpl is the text template, args the
\* values the text shows, cb the callback_data of the buttons in order, url
\* the media reference or the target of the open-URL button.
SendWith(call, tmpl, args, cb, url, okpc, failpc) ==
    \E ok \in TransportOutcomes(call, loc.msg_deleted) :
        /\ out' = Append(out, [call |-> call, tmpl |-> tmpl, args |-> args, cb |-> cb,
                                url |-> url, ok |-> ok])
        /\ pc' = IF ok THEN okpc ELSE IF failpc = "raise" THEN "done" ELSE failpc
        /\ escaped' = (~ok /\ failpc = "raise")

Send(call, tmpl, cb, url, okpc, failpc) == SendWith(call, tmpl, <<>>, cb, url, okpc, failpc)

(***************************************************************************)
(* start and help_command: one reply inside a try statement that logs any  *)
(* exception.  about_command is not registered in main.                    *)
(***************************************************************************)
start(u) ==
    /\ Begin("start", u, <<>>, FALSE)
    /\ loc' = NoLocals
    /\ pc' = "st_reply_welcome"
    /\ UNCHANGED <<user_data, hist>>

st_reply_welcome ==
    /\ pc = "st_reply_welcome"
    /\ Send("reply_text", "welcome", <<S_help, S_about>>, None, "done", "done")
    /\ UNCHANGED <<user_data, ev, loc, ext, sess0, hist>>

help_command(u) ==
    /\ Begin("help_command", u, <<>>, FALSE)
    /\ loc' = NoLocals
    /\ pc' = "hc_reply_help"
    /\ UNCHANGED <<user_data, hist>>

hc_reply_help ==
    /\ pc = "hc_reply_help"
    /\ Send("reply_text", "help", <<>>, None, "done", "done")
    /\ UNCHANGED <<user_data, ev, loc, ext, sess0, hist>>

(***************************************************************************)
(* search_command                                                          *)
(***************************************************************************)
search_command(u, args) ==
    /\ Begin("search_command", u, args, FALSE)
    /\ loc' = IF args = <<>> THEN NoLocals ELSE [NoLocals EXCEPT !.query = Join(args)]
    /\ pc' = IF args = <<>> THEN "sc_reply_usage" ELSE "sc_reply_searching"
    /\ UNCHANGED <<user_data, hist>>

sc_reply_usage ==
    /\ pc = "sc_reply_usage"
    /\ Send("reply_text", "usage", <<>>, None, "done", "raise")
    /\ UNCHANGED <<user_data, ev, loc, ext, sess0, hist>>

sc_reply_searching ==
    /\ pc = "sc_reply_searching"
    /\ SendWith("reply_text", "searching", <<loc.query>>, <<>>, None,
                "sc_search_youtube", "raise")
    /\ UNCHANGED <<user_data, ev, loc, ext, sess0, hist>>

\* faulty variant: a failure of the service is not caught in search_youtube
sc_search_youtube_propagates ==
    /\ pc = "sc_search_youtube"
    /\ \E raw \in ExtractSearch(loc.query) :
        LET results == search_youtube(raw)
        IN  /\ ext' = Append(ext, [fn |-> "search_youtube", url |-> SearchSpec(loc.query),
                                   raw |-> raw, result |-> results])
            /\ loc' = [loc EXCEPT !.results = results]
            /\ pc' = IF raw = Raise THEN "sc_except"
                     ELSE IF results = <<>> THEN "sc_edit_no_results" ELSE "sc_edit_results"
    /\ UNCHANGED <<user_data, ev, out, escaped, sess0, hist>>

sc_search_youtube ==
    /\ pc = "sc_search_youtube"
    /\ \E raw \in ExtractSearch(loc.query) :
        LET results == search_youtube(raw)
        IN  /\ ext' = Append(ext, [fn |-> "search_youtube", url |-> SearchSpec(loc.query),
                                   raw |-> raw, result |-> results])
            /\ loc' = [loc EXCEPT !.results = results]
            /\ pc' = IF results = <<>> THEN "sc_edit_no_results" ELSE "sc_edit_results"
    /\ UNCHANGED <<user_data, ev, out, escaped, sess0, hist>>

sc_edit_no_results ==
    /\ pc = "sc_edit_no_results"
    /\ Send("edit_text", "no_results", <<>>, None, "done", "sc_except")
    /\ UNCHANGED <<user_data, ev, loc, ext, sess0, hist>>

sc_edit_results ==
    /\ pc = "sc_edit_results"
    /\ SendWith("edit_text", "search_results", <<loc.query>>, SearchKeyboard(loc.results),
                None, "done", "sc_except")
    /\ UNCHANGED <<user_data, ev, loc, ext, sess0, hist>>

sc_except ==
    /\ pc = "sc_except"
    /\ Send("edit_text", "error", <<>>, None, "done", "raise")
    /\ UNCHANGED <<user_data, ev, loc, ext, sess0, hist>>

(***************************************************************************)
(* handle_youtube_link                                                     *)
(***************************************************************************)
\* the URL the handler works on; None when a forwarded body has no URL
MessageUrl(text, forwarded) == IF forwarded THEN FirstUrl(text) ELSE Strip(text)

\* the URL of a message and the call its handler goes to first
hyl_dispatch(text, forwarded) ==
    LET url == MessageUrl(text, forwarded)
    IN  [url |-> url,
         pc |-> IF url = None THEN "hyl_reply_no_link"
                ELSE IF ~is_youtube_url(url) THEN "done"
                ELSE IF is_playlist(url) THEN "pl_reply_loading"
                ELSE "hyl_reply_processing"]

\* hyl_dispatch of the messages the users send, evaluated once for each
AllMessages == UNION {Messages(u) : u \in Users} \cup LongMessages
Dispatch == [m \in AllMessages |-> hyl_dispatch(m[1], m[2])]

\* faulty variant: text that is no link is answered with an error
handle_youtube_link_answers(u, text, forwarded) ==
    /\ Begin("handle_youtube_link", u, text, forwarded)
    /\ LET url == MessageUrl(text, forwarded)
       IN  /\ loc' = [NoLocals EXCEPT !.url = url]
           /\ pc' = IF url = None THEN "hyl_reply_no_link"
                    ELSE IF ~is_youtube_url(url) THEN "hyl_except"
                    ELSE IF is_playlist(url) THEN "pl_reply_loading"
                    ELSE "hyl_reply_processing"
    /\ UNCHANGED <<user_data, hist>>

handle_youtube_link(u, text, forwarded) ==
    /\ Begin("handle_youtube_link", u, text, forwarded)
    /\ loc' = [NoLocals EXCEPT !.url = Dispatch[<<text, forwarded>>].url]
    /\ pc' = Dispatch[<<text, forwarded>>].pc
    /\ UNCHANGED <<user_data, hist>>

hyl_reply_no_link ==
    /\ pc = "hyl_reply_no_link"
    /\ Send("reply_text", "no_link_in_forward", <<>>, None, "done", "raise")
    /\ UNCHANGED <<user_data, ev, loc, ext, sess0, hist>>

hyl_reply_processing ==
    /\ pc = "hyl_reply_processing"
    /\ Send("reply_text", "processing", <<>>, None, "hyl_get_video_info", "hyl_except")
    /\ UNCHANGED <<user_data, ev, loc, ext, sess0, hist>>

\* info['title'][:100] raises a TypeError when the title is None
Subscriptable(title) == title # NoneStr

\* "if info['thumbnail']": None and the empty string are false
NoThumbnail(thumbnail) == thumbnail \in {"", NoneStr}

\* after the session is stored: the caption is built, and the menu goes out
\* with the thumbnail when there is one
hyl_after_store(info) ==
    IF ~Subscriptable(info.title) THEN "hyl_except"
    ELSE IF NoThumbnail(info.thumbnail) THEN "hyl_edit_menu" ELSE "hyl_delete"

\* faulty variant: a session that holds a URL is kept
StoreSession_if_absent(d, url, info) ==
    IF "current_url" \in DOMAIN d THEN d
    ELSE Put(Put(d, "current_url", url), "video_info", info)

\* context.user_data['current_url'] = url; context.user_data['video_info'] = info
StoreSession(d, url, info) == Put(Put(d, "current_url", url), "video_info", info)

\* faulty variant: a failed resolution is tried once more
hyl_get_video_info_retries ==
    /\ pc = "hyl_get_video_info"
    /\ \E raw \in ExtractVideo(loc.url) :
        LET info == get_video_info(raw)
        IN  /\ ext' = Append(ext, [fn |-> "get_video_info", url |-> loc.url, raw |-> raw,
                                   result |-> info])
            /\ loc' = [loc EXCEPT !.info = info]
            /\ IF info = NoneDict
               THEN /\ pc' = IF ext = <<>> THEN "hyl_get_video_info" ELSE "hyl_edit_info_failed"
                    /\ UNCHANGED <<user_data, hist>>
               ELSE /\ user_data' = [user_data EXCEPT
                                        ![ev.user] = StoreSession(@, loc.url, info)]
                    /\ hist' = NotePut(hist, ev.user, loc.url, info)
                    /\ pc' = hyl_after_store(info)
    /\ UNCHANGED <<ev, out, escaped, sess0>>

hyl_get_video_info ==
    /\ pc = "hyl_get_video_info"
    /\ \E raw \in ExtractVideo(loc.url) :
        LET info == get_video_info(raw)
        IN  /\ ext' = Append(ext, [fn |-> "get_video_info", url |-> loc.url, raw |-> raw,
                                   result |-> info])
            /\ loc' = [loc EXCEPT !.info = info]
            /\ IF info = NoneDict
               THEN /\ pc' = "hyl_edit_info_failed"
                    /\ UNCHANGED <<user_data, hist>>
               ELSE /\ user_data' = [user_data EXCEPT
                                        ![ev.user] = StoreSession(@, loc.url, info)]
                    /\ hist' = NotePut(hist, ev.user, loc.url, info)
                    /\ pc' = hyl_after_store(info)
    /\ UNCHANGED <<ev, out, escaped, sess0>>

hyl_edit_info_failed ==
    /\ pc = "hyl_edit_info_failed"
    /\ Send("edit_text", "info_failed", <<>>, None, "done", "hyl_except")
    /\ UNCHANGED <<user_data, ev, loc, ext, sess0, hist>>

hyl_delete ==
    /\ pc = "hyl_delete"
    /\ Send("delete", "", <<>>, None, "hyl_reply_photo", "hyl_edit_menu_fallback")
    /\ loc' = [loc EXCEPT !.msg_deleted = (pc' = "hyl_reply_photo")]
    /\ UNCHANGED <<user_data, ev, ext, sess0, hist>>

hyl_reply_photo ==
    /\ pc = "hyl_reply_photo"
    /\ Send("reply_photo", "menu", FormatMenu, None, "done", "hyl_edit_menu_fallback")
    /\ UNCHANGED <<user_data, ev, loc, ext, sess0, hist>>

hyl_edit_menu_fallback ==
    /\ pc = "hyl_edit_menu_fallback"
    /\ Send("edit_text", "menu", FormatMenu, None, "done", "hyl_except")
    /\ UNCHANGED <<user_data, ev, loc, ext, sess0, hist>>

hyl_edit_menu ==
    /\ pc = "hyl_edit_menu"
    /\ Send("edit_text", "menu", FormatMenu, None, "done", "hyl_except")
    /\ UNCHANGED <<user_data, ev, loc, ext, sess0, hist>>

hyl_except ==
    /\ pc = "hyl_except"
    /\ Send("reply_text", "error", <<>>, None, "done", "raise")
    /\ UNCHANGED <<user_data, ev, loc, ext, sess0, hist>>

(***************************************************************************)
(* handle_playlist                                                         *)
(***************************************************************************)
pl_reply_loading ==
    /\ pc = "pl_reply_loading"
    /\ Send("reply_text", "loading_playlist", <<>>, None, "pl_get_playlist_info", "raise")
    /\ UNCHANGED <<user_data, ev, loc, ext, sess0, hist>>

\* faulty variant: the playlist URL is stored as the session's URL
pl_get_playlist_info_stores_url ==
    /\ pc = "pl_get_playlist_info"
    /\ \E raw \in ExtractPlaylist(loc.url) :
        LET playlist_info == get_playlist_info(raw)
        IN  /\ ext' = Append(ext, [fn |-> "get_playlist_info", url |-> loc.url, raw |-> raw,
                                   result |-> playlist_info])
            /\ loc' = [loc EXCEPT !.playlist_info = playlist_info]
            /\ pc' = IF playlist_info = NoneDict THEN "pl_edit_failed" ELSE "pl_edit_list"
    /\ user_data' = [user_data EXCEPT ![ev.user] = Put(@, "current_url", loc.url)]
    /\ UNCHANGED <<ev, out, escaped, sess0, hist>>

pl_get_playlist_info ==
    /\ pc = "pl_get_playlist_info"
    /\ \E raw \in ExtractPlaylist(loc.url) :
        LET playlist_info == get_playlist_info(raw)
        IN  /\ ext' = Append(ext, [fn |-> "get_playlist_info", url |-> loc.url, raw |-> raw,
                                   result |-> playlist_info])
            /\ loc' = [loc EXCEPT !.playlist_info = playlist_info]
            /\ pc' = IF playlist_info = NoneDict THEN "pl_edit_failed" ELSE "pl_edit_list"
    /\ UNCHANGED <<user_data, ev, out, escaped, sess0, hist>>

pl_edit_failed ==
    /\ pc = "pl_edit_failed"
    /\ Send("edit_text", "playlist_failed", <<>>, None, "done", "pl_except")
    /\ UNCHANGED <<user_data, ev, loc, ext, sess0, hist>>

pl_edit_list ==
    /\ pc = "pl_edit_list"
    /\ SendWith("edit_text", "playlist",
                <<loc.playlist_info.playlist_title, loc.playlist_info.total_count>>,
                PlaylistKeyboard(loc.playlist_info.videos), None, "done", "pl_except")
    /\ UNCHANGED <<user_data, ev, loc, ext, sess0, hist>>

pl_except ==
    /\ pc = "pl_except"
    /\ Send("edit_text", "error", <<>>, None, "done", "raise")
    /\ UNCHANGED <<user_data, ev, loc, ext, sess0, hist>>

(***************************************************************************)
(* button_callback                                                         *)
(***************************************************************************)
button_callback(u, data) ==
    /\ Begin("button_callback", u, data, FALSE)
    /\ loc' = NoLocals
    /\ pc' = "cb_answer"
    /\ UNCHANGED <<user_data, hist>>

\* faulty variant: the check of the URL is missing
Falsy_unchecked(url) == FALSE

\* "if not url": None and the empty string are false
Falsy(url) == url = None \/ url = <<>>

\* the url of a dl_ token
DlUrl(data) == RemoveAll(data, S_dl)

\* query.answer(), then the dispatch on the token up to the next call
cb_answer ==
    /\ pc = "cb_answer"
    /\ LET data == ev.text
           session == user_data[ev.user]
           route ==
              IF data = S_help THEN "cb_reply_help"
              ELSE IF data = S_about THEN "cb_reply_about"
              ELSE IF StartsWith(data, S_dl) THEN "cb_edit_loading"
              ELSE IF StartsWith(data, S_fmt)
              THEN (IF Falsy(Get(session, "current_url", None))
                    THEN "cb_edit_expired" ELSE "cb_edit_preparing")
              ELSE "done"
       IN  /\ Send("answer", "", <<>>, None, route, "raise")
           /\ IF pc' = "cb_edit_loading"
              THEN /\ loc' = [loc EXCEPT !.url = DlUrl(data)]
                   /\ user_data' = [user_data EXCEPT
                                       ![ev.user] = Put(@, "current_url", DlUrl(data))]
                   /\ hist' = NoteUrlOnly(hist, ev.user)
              ELSE IF pc' \in {"cb_edit_expired", "cb_edit_preparing"}
              THEN /\ loc' = [loc EXCEPT !.url = Get(session, "current_url", None),
                                         !.info = Get(session, "video_info", EmptyDict)]
                   /\ UNCHANGED <<user_data, hist>>
              ELSE UNCHANGED <<loc, user_data, hist>>
    /\ UNCHANGED <<ev, ext, sess0>>

cb_reply_help ==
    /\ pc = "cb_reply_help"
    /\ Send("reply_text", "help_hint", <<>>, None, "done", "cb_except")
    /\ UNCHANGED <<user_data, ev, loc, ext, sess0, hist>>

cb_reply_about ==
    /\ pc = "cb_reply_about"
    /\ Send("reply_text", "about", <<>>, None, "done", "cb_except")
    /\ UNCHANGED <<user_data, ev, loc, ext, sess0, hist>>

cb_edit_loading ==
    /\ pc = "cb_edit_loading"
    /\ Send("edit_text", "loading_info", <<>>, None, "cb_get_video_info", "cb_except")
    /\ UNCHANGED <<user_data, ev, loc, ext, sess0, hist>>

cb_get_video_info ==
    /\ pc = "cb_get_video_info"
    /\ \E raw \in ExtractVideo(loc.url) :
        LET info == get_video_info(raw)
        IN  /\ ext' = Append(ext, [fn |-> "get_video_info", url |-> loc.url, raw |-> raw,
                                   result |-> info])
            /\ loc' = [loc EXCEPT !.info = info]
            /\ IF info = NoneDict
               THEN /\ pc' = "cb_edit_info_failed"
                    /\ UNCHANGED <<user_data, hist>>
               ELSE /\ user_data' = [user_data EXCEPT ![ev.user] = Put(@, "video_info", info)]
                    /\ hist' = NotePut(hist, ev.user, loc.url, info)
                    /\ pc' = IF Subscriptable(info.title) THEN "cb_edit_menu" ELSE "cb_except"
    /\ UNCHANGED <<ev, out, escaped, sess0>>

cb_edit_info_failed ==
    /\ pc = "cb_edit_info_failed"
    /\ Send("edit_text", "info_failed", <<>>, None, "done", "cb_except")
    /\ UNCHANGED <<user_data, ev, loc, ext, sess0, hist>>

cb_edit_menu ==
    /\ pc = "cb_edit_menu"
    /\ Send("edit_text", "menu", FormatMenu, None, "done", "cb_except")
    /\ UNCHANGED <<user_data, ev, loc, ext, sess0, hist>>

cb_edit_expired ==
    /\ pc = "cb_edit_expired"
    /\ Send("edit_text", "session_expired", <<>>, None, "done", "cb_except")
    /\ UNCHANGED <<user_data, ev, loc, ext, sess0, hist>>

cb_edit_preparing ==
    /\ pc = "cb_edit_preparing"
    /\ Send("edit_text", "preparing", <<>>, None, "cb_get_download_info", "cb_except")
    /\ loc' = IF pc' = "cb_get_download_info"
              THEN [loc EXCEPT !.format_type = ParseFormatType(ev.text),
                               !.quality = ParseQuality(ev.text)]
              ELSE loc
    /\ UNCHANGED <<user_data, ev, ext, sess0, hist>>

\* faulty variant: a failed resolution drops the session
cb_get_download_info_drops_session ==
    /\ pc = "cb_get_download_info"
    /\ \E raw \in ExtractStream(loc.url, FormatSpec(loc.format_type, loc.quality)) :
        LET download_info == get_download_info(raw)
        IN  /\ ext' = Append(ext, [fn |-> "get_download_info", url |-> loc.url, raw |-> raw,
                                   result |-> download_info])
            /\ loc' = [loc EXCEPT !.download_info = download_info]
            /\ pc' = IF download_info = NoneDict THEN "cb_edit_dl_failed" ELSE "cb_edit_ready"
            /\ user_data' = IF download_info = NoneDict
                            THEN [user_data EXCEPT ![ev.user] = EmptyDict] ELSE user_data
    /\ UNCHANGED <<ev, out, escaped, sess0, hist>>

cb_get_download_info ==
    /\ pc = "cb_get_download_info"
    /\ \E raw \in ExtractStream(loc.url, FormatSpec(loc.format_type, loc.quality)) :
        LET download_info == get_download_info(raw)
        IN  /\ ext' = Append(ext, [fn |-> "get_download_info", url |-> loc.url, raw |-> raw,
                                   result |-> download_info])
            /\ loc' = [loc EXCEPT !.download_info = download_info]
            /\ pc' = IF download_info = NoneDict THEN "cb_edit_dl_failed" ELSE "cb_edit_ready"
    /\ UNCHANGED <<user_data, ev, out, escaped, sess0, hist>>

cb_edit_dl_failed ==
    /\ pc = "cb_edit_dl_failed"
    /\ Send("edit_text", "try_another_quality", <<>>, None, "done", "cb_except")
    /\ UNCHANGED <<user_data, ev, loc, ext, sess0, hist>>

cb_edit_ready ==
    /\ pc = "cb_edit_ready"
    /\ Send("edit_text", "download_ready", <<>>, None, "cb_send_media", "cb_except")
    /\ UNCHANGED <<user_data, ev, loc, ext, sess0, hist>>

\* reply_audio or reply_video with the resolved stream reference
cb_send_media ==
    /\ pc = "cb_send_media"
    /\ Send(IF loc.format_type = "audio" THEN "reply_audio" ELSE "reply_video", "media",
            <<>>, loc.download_info.url, "cb_reply_success", "cb_reply_too_large")
    /\ UNCHANGED <<user_data, ev, loc, ext, sess0, hist>>

\* the keyboard of both replies after the send: an open-URL button for the
\* stream and a dl_ button for the session's URL
cb_reply_success ==
    /\ pc = "cb_reply_success"
    /\ Send("reply_text", "sent_successfully", <<S_dl \o loc.url>>, loc.download_info.url,
            "done", "cb_reply_too_large")
    /\ UNCHANGED <<user_data, ev, loc, ext, sess0, hist>>

\* faulty variant: the fallback reply has no re-selection button
cb_reply_too_large_without_dl ==
    /\ pc = "cb_reply_too_large"
    /\ Send("reply_text", "too_large", <<>>, loc.download_info.url, "done", "cb_except")
    /\ UNCHANGED <<user_data, ev, loc, ext, sess0, hist>>

cb_reply_too_large ==
    /\ pc = "cb_reply_too_large"
    /\ Send("reply_text", "too_large", <<S_dl \o loc.url>>, loc.download_info.url,
            "done", "cb_except")
    /\ UNCHANGED <<user_data, ev, loc, ext, sess0, hist>>

cb_except ==
    /\ pc = "cb_except"
    /\ Send("reply_text", "error", <<>>, None, "done", "raise")
    /\ UNCHANGED <<user_data, ev, loc, ext, sess0, hist>>

(***************************************************************************)
(* Specification.                                                          *)
(***************************************************************************)
Next ==
    \/ \E u \in Users : "start" \in Commands(u) /\ start(u)
    \/ st_reply_welcome
    \/ \E u \in Users : "help" \in Commands(u) /\ help_command(u)
    \/ hc_reply_help
    \/ \E u \in Users : \E args \in Searches(u) : search_command(u, args)
    \/ sc_reply_usage
    \/ sc_reply_searching
    \/ sc_search_youtube
    \/ sc_edit_no_results
    \/ sc_edit_results
    \/ sc_except
    \/ \E u \in Users : \E m \in Messages(u) : handle_youtube_link(u, m[1], m[2])
    \/ hyl_reply_no_link
    \/ hyl_reply_processing
    \/ hyl_get_video_info
    \/ hyl_edit_info_failed
    \/ hyl_delete
    \/ hyl_reply_photo
    \/ hyl_edit_menu_fallback
    \/ hyl_edit_menu
    \/ hyl_except
    \/ pl_reply_loading
    \/ pl_get_playlist_info
    \/ pl_edit_failed
    \/ pl_edit_list
    \/ pl_except
    \/ \E u \in Users : \E data \in CallbackData(u) : button_callback(u, data)
    \/ cb_answer
    \/ cb_reply_help
    \/ cb_reply_about
    \/ cb_edit_loading
    \/ cb_get_video_info
    \/ cb_edit_info_failed
    \/ cb_edit_menu
    \/ cb_edit_expired
    \/ cb_edit_preparing
    \/ cb_get_download_info
    \/ cb_edit_dl_failed
    \/ cb_edit_ready
    \/ cb_send_media
    \/ cb_reply_success
    \/ cb_reply_too_large
    \/ cb_except

Spec == Init /\ [][Next]_vars

(***************************************************************************)
(* The long-link scenario: user 1 sends the first video's URL with the     *)
(* channel parameter, as text, and selects formats.                        *)
(***************************************************************************)
NextLong ==
    \/ \E m \in LongMessages : handle_youtube_link(1, m[1], m[2])
    \/ hyl_reply_processing
    \/ hyl_get_video_info
    \/ hyl_edit_info_failed
    \/ hyl_delete
    \/ hyl_reply_photo
    \/ hyl_edit_menu_fallback
    \/ hyl_except
    \/ \E data \in {T_video_720, T_audio} : button_callback(1, data)
    \/ cb_answer
    \/ cb_edit_expired
    \/ cb_edit_preparing
    \/ cb_get_download_info
    \/ cb_edit_dl_failed
    \/ cb_edit_ready
    \/ cb_send_media
    \/ cb_reply_success
    \/ cb_reply_too_large
    \/ cb_except

SpecLong == Init /\ [][NextLong]_vars

(***************************************************************************)
(* The metadata resolution on its own: user 1 sent the shorts link as      *)
(* text, or pressed the button of its dl_ token, and the handler is at the *)
(* call of get_video_info.                                                 *)
(***************************************************************************)
InitFields ==
    \E dl \in BOOLEAN :
        /\ user_data = [v \in Users |->
                           IF dl /\ v = 1 THEN Put(EmptyDict, "current_url", U_shorts)
                           ELSE EmptyDict]
        /\ pc = IF dl THEN "cb_get_video_info" ELSE "hyl_get_video_info"
        /\ ev = [handler |-> IF dl THEN "button_callback" ELSE "handle_youtube_link",
                 user |-> 1, text |-> IF dl THEN S_dl \o U_shorts ELSE U_shorts,
                 forwarded |-> FALSE, retry |-> FALSE]
        /\ loc = [NoLocals EXCEPT !.url = U_shorts]
        /\ out = IF dl
                 THEN <<[call |-> "answer", tmpl |-> "", args |-> <<>>, cb |-> <<>>,
                         url |-> None, ok |-> TRUE],
                        [call |-> "edit_text", tmpl |-> "loading_info", args |-> <<>>,
                         cb |-> <<>>, url |-> None, ok |-> TRUE]>>
                 ELSE <<[call |-> "reply_text", tmpl |-> "processing", args |-> <<>>,
                         cb |-> <<>>, url |-> None, ok |-> TRUE]>>
        /\ ext = <<>>
        /\ escaped = FALSE
        /\ sess0 = [v \in Users |-> EmptyDict]
        /\ hist = [v \in Users |-> [last |-> None, info |-> NoneDict, prev |-> None,
                                     dirty |-> dl /\ v = 1]]

NextFields ==
    \/ hyl_get_video_info
    \/ hyl_edit_info_failed
    \/ hyl_delete
    \/ hyl_reply_photo
    \/ hyl_edit_menu_fallback
    \/ hyl_edit_menu
    \/ hyl_except
    \/ cb_get_video_info
    \/ cb_edit_info_failed
    \/ cb_edit_menu
    \/ cb_except

SpecFields == InitFields /\ [][NextFields]_vars

(***************************************************************************)
(* The format negotiation on its own: a fmt_ selection of a user whose     *)
(* session holds a video, at the call before the token is parsed, for      *)
(* every user and every token made of up to MaxChunks pieces.              *)
(***************************************************************************)
MaxChunks == 4

Chunks == {<<"v","i","d","e","o","_">>, <<"7","2","0">>, <<"4","8","0">>, <<"3","6","0">>,
           <<"1","4","4">>, S_audio, <<"b","e","s","t">>, <<"_">>}

RECURSIVE Tokens(_)
Tokens(n) ==
    IF n = 0 THEN {S_fmt}
    ELSE Tokens(n - 1) \cup {t \o c : <<t, c>> \in Tokens(n - 1) \X Chunks}

InitParse ==
    \E u \in Users : \E data \in Tokens(MaxChunks) :
        LET url == IF u = 1 THEN U_watch ELSE U_short
            info == get_video_info(CHOOSE raw \in ExtractVideo(url) : raw # Raise)
        IN  /\ user_data = [v \in Users |->
                               IF v = u THEN StoreSession(EmptyDict, url, info) ELSE EmptyDict]
            /\ pc = "cb_edit_preparing"
            /\ ev = [handler |-> "button_callback", user |-> u, text |-> data,
                     forwarded |-> FALSE, retry |-> FALSE]
            /\ loc = [NoLocals EXCEPT !.url = url, !.info = info]
            /\ out = <<[call |-> "answer", tmpl |-> "", args |-> <<>>, cb |-> <<>>,
                        url |-> None, ok |-> TRUE]>>
            /\ ext = <<>>
            /\ escaped = FALSE
            /\ sess0 = user_data
            /\ hist = [v \in Users |->
                         IF v = u THEN [last |-> url, info |-> info, prev |-> None,
                                        dirty |-> FALSE]
                         ELSE [last |-> None, info |-> NoneDict, prev |-> None,
                               dirty |-> FALSE]]

NextParse == cb_edit_preparing

SpecParse == InitParse /\ [][NextParse]_vars

TypeOK ==
    /\ pc \in {"idle", "done", "hyl_reply_no_link", "hyl_reply_processing",
               "hyl_get_video_info", "hyl_edit_info_failed", "hyl_delete", "hyl_reply_photo",
               "hyl_edit_menu_fallback", "hyl_edit_menu", "hyl_except", "pl_reply_loading",
               "pl_get_playlist_info", "pl_edit_failed", "pl_edit_list", "pl_except",
               "cb_answer", "cb_reply_help", "cb_reply_about", "cb_edit_loading",
               "cb_get_video_info", "cb_edit_info_failed", "cb_edit_menu", "cb_edit_expired",
               "cb_edit_preparing", "cb_get_download_info", "cb_edit_dl_failed",
               "cb_edit_ready", "cb_send_media", "cb_reply_success", "cb_reply_too_large",
               "cb_except", "sc_reply_usage", "sc_reply_searching", "sc_search_youtube",
               "sc_edit_no_results", "sc_edit_results", "sc_except",
               "st_reply_welcome", "hc_reply_help"}
    /\ \A u \in Users : DOMAIN user_data[u] \subseteq {"current_url", "video_info"}
    /\ escaped \in BOOLEAN

(***************************************************************************)
(* Vocabulary of the properties.                                           *)
(***************************************************************************)
IsText == ev.handler = "handle_youtube_link"
IsCallback == ev.handler = "button_callback"
IsSearch == ev.handler = "search_command"
IsFmt == IsCallback /\ StartsWith(ev.text, S_fmt)
Finished == pc = "done" /\ ev.handler # "none"
Quiescent == pc \in {"idle", "done"}

\* query.answer() was accepted: the handler went on to its dispatch
Answered == Len(out) >= 1 /\ out[1].call = "answer" /\ out[1].ok

HasUrl(d) == "current_url" \in DOMAIN d
HasInfo(d) == "video_info" \in DOMAIN d

\* the session had no active URL when the handler started
NoActiveUrl == ~HasUrl(sess0[ev.user]) \/ sess0[ev.user].current_url = <<>>

MediaCalls == {i \in 1..Len(out) : out[i].call \in {"reply_audio", "reply_video"}}
FailedMediaCalls == {i \in MediaCalls : ~out[i].ok}
Issued(tmpl) == \E i \in 1..Len(out) : out[i].tmpl = tmpl
Accepted(tmpl) == \E i \in 1..Len(out) : out[i].tmpl = tmpl /\ out[i].ok
Called(fn) == \E i \in 1..Len(ext) : ext[i].fn = fn

\* the i-th transport call is a text of template tmpl, and the handler ends
\* there when the transport accepts it
EndsWith(i, call, tmpl) ==
    /\ Len(out) >= i
    /\ out[i].call = call
    /\ out[i].tmpl = tmpl
    /\ out[i].ok => Len(out) = i

\* the terminal states of the delivery orchestrator, told from what the
\* transport accepted
Delivered == \E i \in MediaCalls : out[i].ok
LinkFallback == Accepted("too_large")
Failed ==
    \/ Accepted("session_expired")
    \/ Accepted("try_another_quality")
    \/ Accepted("error")
    \/ escaped
TerminalTemplates ==
    {"sent_successfully", "too_large", "session_expired", "try_another_quality", "error"}
AcceptedTerminalReplies == {i \in 1..Len(out) : out[i].tmpl \in TerminalTemplates /\ out[i].ok}

(***************************************************************************)
(* C1.  Between two updates, every session that holds a URL also holds     *)
(* metadata, and that metadata was resolved from the same URL (read here   *)
(* in the claim's favour: only after updates that were answered and in     *)
(* which the transport accepted every call).                               *)
(* The code does not keep this: a dl_ callback writes current_url before   *)
(* it resolves the metadata, and leaves it written when the resolution     *)
(* fails.                                                                  *)
(***************************************************************************)
C1_UrlHasItsMetadata ==
    (Quiescent /\ out # <<>> /\ \A i \in 1..Len(out) : out[i].ok) =>
        \A u \in Users :
            HasUrl(user_data[u]) =>
                /\ HasInfo(user_data[u])
                /\ hist[u].last = user_data[u].current_url
                /\ hist[u].info = user_data[u].video_info

(***************************************************************************)
(* C2.  A fmt_ selection of a user whose session has no active URL never   *)
(* calls the extraction service and never sends media; once its            *)
(* query.answer() is accepted its next call is the "session expired"       *)
(* edit, and the handler ends there when the transport accepts the edit    *)
(* (when the transport rejects it, the only further call is the generic    *)
(* error reply).                                                           *)
(***************************************************************************)
C2_SessionExpired ==
    (IsFmt /\ NoActiveUrl) =>
        /\ ext = <<>>
        /\ MediaCalls = {}
        /\ ~Delivered /\ ~LinkFallback
        /\ pc \in {"cb_answer", "cb_edit_expired", "cb_except", "done"}
        /\ (Finished /\ Answered) =>
              /\ EndsWith(2, "edit_text", "session_expired")
              /\ ~out[2].ok => EndsWith(3, "reply_text", "error") /\ Len(out) = 3

C2_Witness ==
    /\ IsFmt /\ NoActiveUrl /\ Finished
    /\ Len(out) = 2
    /\ Accepted("session_expired")

(***************************************************************************)
(* C3.  No fmt_ selection sends media twice.  When its media send fails    *)
(* at the transport, the next call is the "too large" reply, which         *)
(* carries the resolved stream reference as its open-URL button and        *)
(* dl_<session URL> as its callback button, and the handler ends there     *)
(* when the transport accepts that reply.                                  *)
(***************************************************************************)
C3_LinkFallback ==
    IsFmt =>
        /\ Cardinality(MediaCalls) <= 1
        /\ \A i \in FailedMediaCalls :
              /\ out[i].url = loc.download_info.url
              /\ pc # "cb_reply_too_large" =>
                    /\ EndsWith(i + 1, "reply_text", "too_large")
                    /\ out[i + 1].url = loc.download_info.url
                    /\ out[i + 1].cb = <<S_dl \o sess0[ev.user].current_url>>

C3_Witness ==
    /\ IsFmt /\ Finished
    /\ FailedMediaCalls # {}
    /\ Accepted("too_large")
    /\ out[Len(out)].tmpl = "too_large"

(***************************************************************************)
(* C4.  Every handling of a fmt_ selection ends in exactly one of          *)
(* Delivered, LinkFallback and Failed, and with exactly one terminal       *)
(* reply accepted unless an exception left the handler.                    *)
(* The code does not keep this: when the media send is accepted and the    *)
(* "sent successfully" reply that follows it is rejected, the handler      *)
(* takes the fallback and sends the "too large" reply.                     *)
(***************************************************************************)
C4_OneTerminalState ==
    (IsFmt /\ Finished) =>
        /\ Cardinality({t \in {"Delivered", "LinkFallback", "Failed"} :
                \/ t = "Delivered" /\ Delivered
                \/ t = "LinkFallback" /\ LinkFallback
                \/ t = "Failed" /\ Failed}) = 1
        /\ ~escaped => Cardinality(AcceptedTerminalReplies) = 1

(***************************************************************************)
(* C5.  When the stream resolution of a fmt_ selection yields no result,   *)
(* the handler sends no media, its next call is the "try another quality"  *)
(* edit, which ends it when the transport accepts it, and the sessions     *)
(* are as they were when it started, the user's URL still in place; and    *)
(* the fmt_ selection that directly follows for the same user is not       *)
(* answered as expired and resolves the same URL.                          *)
(***************************************************************************)
C5_ResolutionFailure ==
    /\ (IsFmt /\ ResolutionFailed) =>
          /\ MediaCalls = {}
          /\ ~Delivered /\ ~LinkFallback
          /\ user_data = sess0
          /\ HasUrl(user_data[ev.user]) /\ ~Falsy(user_data[ev.user].current_url)
          /\ Len(ext) = 1
          /\ pc # "cb_edit_dl_failed" => EndsWith(3, "edit_text", "try_another_quality")
    /\ (IsFmt /\ ev.retry) =>
          /\ ~NoActiveUrl
          /\ ~Issued("session_expired")
          /\ \A i \in 1..Len(ext) : ext[i].url = sess0[ev.user].current_url

C5_Witness ==
    /\ IsFmt /\ ev.retry /\ Finished
    /\ Delivered
    /\ Accepted("sent_successfully")
    /\ user_data = sess0

(***************************************************************************)
(* C6.  As claimed: a token that contains "720" and "480" parses to the    *)
(* 720 tier.  The code looks for "video_720", "video_480", ... and not     *)
(* for the bare numbers, so this fails (fmt_720_video_480 is 480,          *)
(* fmt_720480 is best).                                                    *)
(***************************************************************************)
Parsed == IsFmt /\ pc = "cb_get_download_info"

C6_BareMarkers ==
    (Parsed /\ Contains(ev.text, <<"7","2","0">>) /\ Contains(ev.text, <<"4","8","0">>)) =>
        loc.quality = "720"

(***************************************************************************)
(* C6, amended.  The quality tier of a token is that of the first of       *)
(* "video_720", "video_480", "video_360", "video_144" it contains, in      *)
(* this order, wherever they stand, and best when it contains none; so a   *)
(* token with "video_720" and "video_480" is of the 720 tier.              *)
(***************************************************************************)
QualityMarkers == <<S_video_720, S_video_480, S_video_360, S_video_144>>
QualityTiers == <<"720", "480", "360", "144">>

C6_MarkerPriority ==
    Parsed =>
        /\ \A i \in 1..4 :
              (/\ Contains(ev.text, QualityMarkers[i])
               /\ \A j \in 1..(i - 1) : ~Contains(ev.text, QualityMarkers[j]))
                  => loc.quality = QualityTiers[i]
        /\ (\A i \in 1..4 : ~Contains(ev.text, QualityMarkers[i])) => loc.quality = "best"
        /\ (Contains(ev.text, S_video_720) /\ Contains(ev.text, S_video_480))
              => loc.quality = "720"

C6_Witness ==
    /\ Parsed
    /\ Contains(ev.text, S_video_720)
    /\ HasAt(ev.text, Len(S_fmt) + 1, S_video_480)
    /\ loc.quality = "720"

(***************************************************************************)
(* C7.  A fmt_ selection reads the session of its own user as the last     *)
(* completed write left it: the URL of that write and the metadata         *)
(* written with it, whatever was written before; and for a user nothing    *)
(* was ever written for it reads no URL and is answered as expired.        *)
(* (A session whose current_url a dl_ callback wrote since without         *)
(* completing the write is not in the claim.)                              *)
(***************************************************************************)
C7_LastWriteWins ==
    (IsFmt /\ Answered /\ ~hist[ev.user].dirty) =>
        /\ hist[ev.user].last # None =>
              /\ loc.url = hist[ev.user].last
              /\ loc.info = hist[ev.user].info
              /\ ~Issued("session_expired")
              /\ \A i \in 1..Len(ext) : ext[i].url = hist[ev.user].last
        /\ hist[ev.user].last = None =>
              /\ loc.url = None
              /\ ext = <<>>
              /\ pc # "cb_edit_expired" => Issued("session_expired")

C7_Witness ==
    /\ IsFmt /\ Answered /\ ~hist[ev.user].dirty
    /\ hist[ev.user].prev # None
    /\ hist[ev.user].prev # hist[ev.user].last
    /\ loc.url = hist[ev.user].last
    /\ Called("get_download_info")
    /\ \E u \in Users : u # ev.user /\ HasUrl(user_data[u]) /\ user_data[u].current_url # loc.url

(***************************************************************************)
(* C8.  A text message that is not forwarded and that is_youtube_url       *)
(* rejects makes the handler return at once: no transport call, no         *)
(* extraction call, every session as it was.                               *)
(***************************************************************************)
C8_RejectedTextIsNoOp ==
    (IsText /\ ~ev.forwarded /\ ~is_youtube_url(Strip(ev.text))) =>
        /\ pc = "done"
        /\ out = <<>>
        /\ ext = <<>>
        /\ ~escaped
        /\ user_data = sess0

C8_Witness ==
    /\ IsText /\ ~ev.forwarded /\ ~is_youtube_url(Strip(ev.text))
    /\ Contains(ev.text, S_youtu_be)
    /\ HasUrl(user_data[ev.user])
    /\ Finished

(***************************************************************************)
(* C9.  As claimed: a forwarded message whose body holds no URL makes no   *)
(* transport call.  The code answers it with "No YouTube link found in     *)
(* forwarded message!".                                                    *)
(***************************************************************************)
C9_ForwardWithoutUrlIsNoOp ==
    (IsText /\ ev.forwarded /\ FirstUrl(ev.text) = None) =>
        /\ out = <<>>
        /\ user_data = sess0

(***************************************************************************)
(* C10.  A text message whose link is_youtube_url accepts and that         *)
(* contains "list=" is handled by handle_playlist, also when the link      *)
(* carries a video identifier: its first call is the "loading playlist"    *)
(* reply, get_video_info is never called, no format menu is sent and no    *)
(* session is written.                                                     *)
(***************************************************************************)
AcceptedLink ==
    /\ IsText
    /\ MessageUrl(ev.text, ev.forwarded) # None
    /\ is_youtube_url(MessageUrl(ev.text, ev.forwarded))

C10_ListMarkerWins ==
    (AcceptedLink /\ Contains(MessageUrl(ev.text, ev.forwarded), S_list)) =>
        /\ pc \in {"pl_reply_loading", "pl_get_playlist_info", "pl_edit_failed",
                   "pl_edit_list", "pl_except", "done"}
        /\ Len(out) >= 1 => out[1].tmpl = "loading_playlist"
        /\ \A i \in 1..Len(ext) : ext[i].fn = "get_playlist_info"
        /\ \A i \in 1..Len(out) : out[i].tmpl # "menu" /\ out[i].cb # FormatMenu
        /\ user_data = sess0

C10_Witness ==
    /\ AcceptedLink /\ Finished
    /\ Contains(ev.text, S_watch \o Id1)
    /\ Contains(ev.text, S_list)
    /\ Accepted("playlist")
    /\ Len(out[Len(out)].cb) = 2

(***************************************************************************)
(* C11.  For a listing of n entries the extraction service returns,        *)
(* get_playlist_info returns the first min(n, 10) entries in the order of  *)
(* the service, each with the watch URL of its id, and total_count = n;    *)
(* the playlist message handle_playlist then sends has one dl_ button per  *)
(* returned entry, in the same order, and shows n as the total.            *)
(***************************************************************************)
PlaylistListed ==
    /\ IsText
    /\ Called("get_playlist_info")
    /\ ext[1].raw # Raise
    /\ "entries" \in DOMAIN ext[1].raw

C11_PlaylistTruncation ==
    PlaylistListed =>
        LET entries == ext[1].raw.entries
            n == Len(entries)
            k == IF n < 10 THEN n ELSE 10
            r == ext[1].result
        IN  /\ r # NoneDict
            /\ Len(r.videos) = k
            /\ \A i \in 1..k :
                  /\ r.videos[i].id = entries[i].id
                  /\ r.videos[i].url = S_watch_base \o entries[i].id
            /\ r.total_count = n
            /\ pc # "pl_edit_list" =>
                  /\ Len(out) >= 2
                  /\ out[2].call = "edit_text" /\ out[2].tmpl = "playlist"
                  /\ Len(out[2].cb) = k
                  /\ \A i \in 1..k : out[2].cb[i] = S_dl \o S_watch_base \o entries[i].id
                  /\ out[2].args[2] = n

C11_Witness ==
    /\ PlaylistListed /\ Finished
    /\ Len(ext[1].raw.entries) > 10
    /\ Accepted("playlist")
    /\ Len(out[2].cb) = 10
    /\ out[2].args[2] = Len(ext[1].raw.entries)

(***************************************************************************)
(* C12.  When the extraction service fails during a search, search_youtube *)
(* returns the empty sequence, the call that follows is the "no results"   *)
(* edit, the one a search with zero entries is answered with, which ends   *)
(* the handler when the transport accepts it; search results are never     *)
(* shown and no session is changed.                                        *)
(***************************************************************************)
SearchFailed == IsSearch /\ Called("search_youtube") /\ ext[1].raw = Raise
SearchEmpty ==
    /\ IsSearch /\ Called("search_youtube")
    /\ ext[1].raw # Raise
    /\ Get(ext[1].raw, "entries", <<>>) = <<>>

C12_SearchFailureIsNoResults ==
    /\ (SearchFailed \/ SearchEmpty) =>
          /\ ext[1].result = <<>>
          /\ Len(ext) = 1
          /\ ~Issued("search_results")
          /\ pc # "sc_edit_no_results" => EndsWith(2, "edit_text", "no_results")
    /\ IsSearch => user_data = sess0

C12_Witness ==
    /\ SearchFailed /\ Finished
    /\ Len(out) = 2
    /\ Accepted("no_results")
    /\ HasUrl(user_data[ev.user])

(***************************************************************************)
(* C13.  As claimed: a dl_<url> callback resolves the metadata of <url>,   *)
(* the URL that follows the prefix on the button, and when the resolution  *)
(* succeeds the session holds <url> with that metadata and the menu has    *)
(* the six format tokens, as after a text link of the same URL.            *)
(* The code recovers the URL with data.replace('dl_', ''), which also      *)
(* removes a "dl_" inside the URL (C21): for the playlist button of the    *)
(* entry xyzdl_7890w it resolves another URL and stores that one.          *)
(***************************************************************************)
IsDl == IsCallback /\ StartsWith(ev.text, S_dl)
TokenUrl == SubSeq(ev.text, Len(S_dl) + 1, Len(ev.text))
MetadataResolved == Called("get_video_info") /\ ext[1].result # NoneDict

MenuAndSessionOf(url) ==
    /\ ext[1].url = url
    /\ user_data[ev.user] = StoreSession(EmptyDict, url, ext[1].result)
    /\ \A j \in 1..Len(out) : out[j].tmpl = "menu" => out[j].cb = FormatMenu

C13_DlFlowMatchesLinkFlow ==
    /\ IsDl => \A i \in 1..Len(ext) : ext[i].fn = "get_video_info" /\ ext[i].url = TokenUrl
    /\ (IsDl /\ MetadataResolved) => MenuAndSessionOf(TokenUrl)
    /\ (IsText /\ MetadataResolved) => MenuAndSessionOf(MessageUrl(ev.text, ev.forwarded))

(***************************************************************************)
(* C14.  As claimed: no exception leaves a handler; a failure, also of a   *)
(* transport call made before the handler's try or in its except clause,   *)
(* is caught and answered.                                                 *)
(* The code makes calls outside every try: query.answer() in               *)
(* button_callback, the first reply of handle_playlist and of              *)
(* search_command, the reply to a forward without a link, and the reply    *)
(* in each except clause.  A TelegramError of one of them leaves the       *)
(* handler, and the error handler of the application only logs it.         *)
(***************************************************************************)
C14_NoExceptionEscapes == ~escaped

(***************************************************************************)
(* C15.  As claimed: while the handler of one user is in a call of the     *)
(* extraction service, the handler of an update of another user can        *)
(* start.                                                                  *)
(* The application is built without concurrent updates and the calls of    *)
(* the extraction service are synchronous calls inside the handlers: the   *)
(* next update is taken only when the handler in flight has returned.      *)
(***************************************************************************)
InExtraction ==
    pc \in {"hyl_get_video_info", "pl_get_playlist_info", "cb_get_video_info",
            "cb_get_download_info", "sc_search_youtube"}

C15_OtherUsersNotBlocked ==
    InExtraction =>
        \A u \in Users \ {ev.user} :
            /\ ENABLED (\E m \in Messages(u) : handle_youtube_link(u, m[1], m[2]))
            /\ ENABLED (\E data \in CallbackData(u) : button_callback(u, data))

(***************************************************************************)
(* C16.  A handler starts only when no handler is in flight, so never      *)
(* while a handler of the same user is; and from its read of current_url   *)
(* to its end a fmt_ selection finds the session of its user as it was     *)
(* when it started and works on the URL it read.                           *)
(***************************************************************************)
EntryPoints ==
    {"cb_answer", "hyl_reply_no_link", "hyl_reply_processing", "pl_reply_loading",
     "sc_reply_usage", "sc_reply_searching"}

SessionAsRead ==
    (IsFmt /\ Answered) =>
        /\ user_data[ev.user] = sess0[ev.user]
        /\ loc.url = Get(sess0[ev.user], "current_url", None)
        /\ \A i \in 1..Len(ext) : ext[i].url = loc.url

C16_SameUserInOrder ==
    /\ [][(ev' # ev \/ pc' \in EntryPoints) => pc \in {"idle", "done"}]_vars
    /\ []SessionAsRead

C16_Witness ==
    /\ IsFmt /\ ev.retry /\ Answered
    /\ pc = "cb_get_download_info"
    /\ loc.url = sess0[ev.user].current_url
    /\ user_data[ev.user] = sess0[ev.user]

(***************************************************************************)
(* C17.  As claimed: a media send is made only with a non-empty stream     *)
(* reference; when the service yields no usable URL, also when the first   *)
(* entry of its result has no 'url', the handler sends the "try another    *)
(* quality" edit and no media.                                             *)
(* get_download_info returns a dict with url '' for an entry without       *)
(* 'url'; the dict is not empty, so "if not download_info" lets it pass    *)
(* and reply_video / reply_audio is called with ''.                        *)
(***************************************************************************)
NoUsableStream ==
    /\ IsFmt
    /\ Called("get_download_info")
    /\ \/ ext[1].raw = Raise
       \/ /\ ext[1].raw # Raise
          /\ "url" \notin DOMAIN ext[1].raw
          /\ \/ "entries" \notin DOMAIN ext[1].raw
             \/ ext[1].raw.entries = <<>>
             \/ Get(ext[1].raw.entries[1], "url", <<>>) = <<>>

C17_MediaNeedsStream ==
    /\ \A i \in MediaCalls : out[i].url # <<>> /\ out[i].url # None
    /\ NoUsableStream =>
          /\ MediaCalls = {}
          /\ ~Issued("download_ready")
          /\ pc \notin {"cb_edit_ready", "cb_send_media"}
          /\ pc # "cb_edit_dl_failed" => EndsWith(3, "edit_text", "try_another_quality")

(***************************************************************************)
(* C18.  The format choice of a fmt_ selection is the one ParseFormatType  *)
(* and ParseQuality give for its token, whoever the user and whatever the  *)
(* session; for the six tokens of the format menu it is (video, best),     *)
(* (video, 720), (video, 480), (video, 360), (video, 144) and audio.       *)
(***************************************************************************)
C18_MenuTokens ==
    Parsed =>
        /\ loc.format_type = ParseFormatType(ev.text)
        /\ loc.quality = ParseQuality(ev.text)
        /\ ev.text = T_video_best => loc.format_type = "video" /\ loc.quality = "best"
        /\ ev.text = T_video_720 => loc.format_type = "video" /\ loc.quality = "720"
        /\ ev.text = T_video_480 => loc.format_type = "video" /\ loc.quality = "480"
        /\ ev.text = T_video_360 => loc.format_type = "video" /\ loc.quality = "360"
        /\ ev.text = T_video_144 => loc.format_type = "video" /\ loc.quality = "144"
        /\ ev.text = T_audio => loc.format_type = "audio"

C18_Witness ==
    /\ Parsed
    /\ ev.user # 1
    /\ ev.text = FormatMenu[5]
    /\ user_data[ev.user].current_url = U_short
    /\ loc.format_type = "video" /\ loc.quality = "144"

(***************************************************************************)
(* C19.  The handling of one update calls the extraction service at most   *)
(* once.  When its metadata, playlist or stream resolution fails, the      *)
(* call that follows is the error edit of that resolution, no menu, no     *)
(* playlist and no media is sent, at most one error reply is accepted,     *)
(* and exactly one when no exception leaves the handler.                   *)
(***************************************************************************)
ExtractionFailed ==
    /\ ext # <<>>
    /\ ext[1].fn \in {"get_video_info", "get_playlist_info", "get_download_info"}
    /\ ext[1].result = NoneDict

FailureTemplate ==
    IF ext[1].fn = "get_video_info" THEN "info_failed"
    ELSE IF ext[1].fn = "get_playlist_info" THEN "playlist_failed"
    ELSE "try_another_quality"

ErrorTemplates == {"info_failed", "playlist_failed", "try_another_quality", "error"}
AcceptedErrorReplies == {i \in 1..Len(out) : out[i].tmpl \in ErrorTemplates /\ out[i].ok}

C19_NoAutomaticRetry ==
    /\ Len(ext) <= 1
    /\ ExtractionFailed =>
          /\ ~Issued("menu") /\ ~Issued("playlist") /\ ~Issued("download_ready")
          /\ MediaCalls = {}
          /\ Cardinality(AcceptedErrorReplies) <= 1
          /\ (Finished /\ ~escaped) => Cardinality(AcceptedErrorReplies) = 1
          /\ pc \notin {"hyl_edit_info_failed", "cb_edit_info_failed", "pl_edit_failed",
                         "cb_edit_dl_failed"} =>
                \E i \in 1..Len(out) :
                    /\ EndsWith(i, "edit_text", FailureTemplate)
                    /\ \A j \in 1..(i - 1) : out[j].ok /\ out[j].tmpl \notin ErrorTemplates

C19_Witness ==
    /\ IsText /\ Finished
    /\ ExtractionFailed
    /\ Len(ext) = 1
    /\ Len(out) = 2
    /\ Accepted("info_failed")

(***************************************************************************)
(* C20.  As claimed: within the handling of a fmt_ selection the delivery  *)
(* orchestrator moves only AwaitingSelection -> Resolving -> Delivering    *)
(* -> Delivered, Delivering -> LinkFallback, or from any state to Failed.  *)
(* The handling does end in a terminal state on every path when every      *)
(* call returns or fails (C20_Terminates under SpecLive), but not only     *)
(* along these paths: after the media send is accepted (Delivered), a      *)
(* rejected "sent successfully" reply is caught by the except clause of    *)
(* the send, and the "too large" reply takes the handling on to            *)
(* LinkFallback (the defect of C4).                                        *)
(***************************************************************************)
OrchState ==
    IF ~IsFmt THEN "none"
    ELSE IF Failed THEN "Failed"
    ELSE IF LinkFallback THEN "LinkFallback"
    ELSE IF Delivered THEN "Delivered"
    ELSE IF pc = "cb_edit_ready" \/ Issued("download_ready") THEN "Delivering"
    ELSE IF pc = "cb_get_download_info" \/ Called("get_download_info") THEN "Resolving"
    ELSE "AwaitingSelection"

OrchSteps ==
    {<<"AwaitingSelection", "Resolving">>, <<"Resolving", "Delivering">>,
     <<"Delivering", "Delivered">>, <<"Delivering", "LinkFallback">>}

\* every call of button_callback returns or fails
CallbackSteps ==
    \/ cb_answer \/ cb_reply_help \/ cb_reply_about \/ cb_edit_loading
    \/ cb_get_video_info \/ cb_edit_info_failed \/ cb_edit_menu \/ cb_edit_expired
    \/ cb_edit_preparing \/ cb_get_download_info \/ cb_edit_dl_failed \/ cb_edit_ready
    \/ cb_send_media \/ cb_reply_success \/ cb_reply_too_large \/ cb_except

SpecLive == Spec /\ WF_vars(CallbackSteps)

C20_Terminates ==
    (IsFmt /\ pc = "cb_answer") ~> (pc = "done" /\ (Delivered \/ LinkFallback \/ Failed))

C20_OrchestratorPaths ==
    [][(IsFmt /\ pc \notin {"idle", "done"}) =>
          \/ OrchState' = OrchState
          \/ OrchState' = "Failed"
          \/ <<OrchState, OrchState'>> \in OrchSteps]_vars

(***************************************************************************)
(* C21.  As claimed: for every token dl_<u> on a button of a message the   *)
(* bot sends, the URL the dl_ branch recovers from the token is u; and     *)
(* the URL a dl_ callback works on and stores is the one that follows the  *)
(* prefix of its token.                                                    *)
(* data.replace('dl_', '') removes every "dl_" of the token: from the      *)
(* playlist button of the entry xyzdl_7890w the handler recovers the URL   *)
(* of xyz7890w.                                                            *)
(***************************************************************************)
DlButtons ==
    {b \in UNION {{out[i].cb[k] : k \in 1..Len(out[i].cb)} : i \in 1..Len(out)} :
        StartsWith(b, S_dl)}

C21_DlRoundTrip ==
    /\ \A b \in DlButtons : DlUrl(b) = SubSeq(b, Len(S_dl) + 1, Len(b))
    /\ (IsDl /\ Answered) =>
          /\ loc.url = TokenUrl
          /\ user_data[ev.user].current_url = TokenUrl

(***************************************************************************)
(* C22.  While a handler runs and after it, the session of every user      *)
(* other than the one of the update is the one it was when the handler     *)
(* started, and the session of the user of the update differs from it      *)
(* only in a text-link event whose metadata resolution succeeded and in a  *)
(* dl_ callback: fmt_ selections, playlist links, /search, /start, /help,  *)
(* help and about callbacks, rejected text and text links whose metadata   *)
(* resolution failed leave current_url and video_info as they were.        *)
(***************************************************************************)
C22_SessionFrame ==
    /\ \A u \in Users \ {ev.user} : user_data[u] = sess0[u]
    /\ user_data[ev.user] # sess0[ev.user] =>
          \/ IsText /\ MetadataResolved
          \/ IsDl /\ Answered

\* a fmt_ selection delivered its media and left the session of its user, and
\* the session another user holds, as they were
C22_Witness ==
    /\ IsFmt /\ Finished /\ Delivered
    /\ HasInfo(user_data[ev.user])
    /\ user_data = sess0
    /\ \E u \in Users \ {ev.user} : HasInfo(user_data[u])

(***************************************************************************)
(* C23.  As claimed: every callback token on a button of a message the bot *)
(* sends is at most 64 bytes long (the URLs are ASCII, a character is a    *)
(* byte).                                                                  *)
(* is_youtube_url matches a prefix, so the text-link flow accepts and      *)
(* stores a video URL with further parameters whatever its length, and the *)
(* reply after a delivery carries "dl_" and that URL.                      *)
(***************************************************************************)
C23_TokensFit ==
    \A i \in 1..Len(out) : \A k \in 1..Len(out[i].cb) : Len(out[i].cb[k]) <= 64

(***************************************************************************)
(* C24.  As claimed: in the text-link flow and in the dl_ flow, whatever   *)
(* fields of a successful extraction result are absent or null, the        *)
(* session holds the URL and the metadata as soon as the metadata is       *)
(* resolved, no error reply is sent unless the transport refused a call    *)
(* before it, and the handler ends with the format menu accepted when the  *)
(* transport refused nothing.                                              *)
(* An absent field gets its placeholder in get_video_info, but a title     *)
(* that is present and null stays None, and info['title'][:100] raises:    *)
(* the event ends with the error reply.                                    *)
(***************************************************************************)
C24_MissingFieldsReachMenu ==
    ((IsText \/ IsDl) /\ MetadataResolved) =>
        /\ user_data[ev.user] = StoreSession(EmptyDict, loc.url, ext[1].result)
        /\ \A i \in 1..Len(out) :
              out[i].tmpl = "error" => \E j \in 1..(i - 1) : ~out[j].ok
        /\ (Finished /\ \A i \in 1..Len(out) : out[i].ok) => Accepted("menu")

====
